---- MODULE Spec2Model ----
(***************************************************************************)
(* Terminal sessions of src-tauri/src/lib.rs: the registry                 *)
(* (TerminalState behind one parking_lot Mutex), the four commands         *)
(* terminal_create / terminal_write / terminal_resize / terminal_close,    *)
(* the reader thread started by terminal_create, and the part of the PTY   *)
(* backend (child process, output stream) the reader observes.             *)
(***************************************************************************)
EXTENDS Integers, Sequences, FiniteSets, TLC

VARIABLES
    terminals,  \* TerminalState.terminals : id -> PtyInstance (pair, geometry)
    next_id,    \* TerminalState.next_id (u32)
    lock,       \* holder of the Mutex<TerminalState>: a caller, or NoThread
    th,         \* per command-invoking thread: position and locals
    workers,    \* reader threads: id -> [pc, pair]
    events,     \* per id, the events emitted to the frontend, in order
    consumed,   \* per id, the bytes its reader has read so far, in order
    child,      \* per PTY pair, the spawned shell: "none" | "running" | "exited"
    ptyOut,     \* per PTY pair, bytes written by the child and not yet read
    ptyIn,      \* per PTY pair, bytes delivered through the writer
    hup,        \* per PTY pair, whether the master side reports end of stream
    next_pair,  \* number of PTY pairs opened so far, plus 1
    failed,     \* PTY pairs opened by a terminal_create that then failed
    allocated,  \* ids taken from next_id, in the order they were taken
    returned,   \* ids handed back by terminal_create, in the order of return
    removed     \* ids whose entry terminal_close has removed

vars == <<terminals, next_id, lock, th, workers, events, consumed, child,
          ptyOut, ptyIn, hup, next_pair, failed, allocated, returned, removed>>

----------------------------------------------------------------------------
\* Bounds of the model.
MaxId == 2
MaxPairs == 2
MaxSessions == 1
MaxOut == 1
MaxStream == 2
MaxIn == 1
MaxWrite == 4

\* Program constants.
BufSize == 4096
FirstId == 1
REPLACEMENT == 65533
NoCode == -1

Callers == {"t1", "t2"}
NoThread == "none"
Ids == 1..MaxId
Pairs == 1..MaxPairs
\* 'a', the two bytes of U+00E9, and nothing else: enough for valid,
\* truncated and stray sequences.
Bytes == {97, 195, 169}
SessionBytes == {97}
Payloads == {<<120>>}
Geoms == {<<0, 0>>, <<24, 80>>}
ExitCodes == {0}

----------------------------------------------------------------------------
\* String::from_utf8_lossy, on a sequence of bytes, giving the sequence of
\* code points of the resulting String.

Get(bs, k) == IF k <= Len(bs) THEN bs[k] ELSE 0

IsCont(b) == b \in 128..191

utf8_char_width(b) ==
    IF b < 128 THEN 1
    ELSE IF b \in 194..223 THEN 2
    ELSE IF b \in 224..239 THEN 3
    ELSE IF b \in 240..244 THEN 4
    ELSE 0

\* The second byte of a 3- or 4-byte sequence is range-checked against the
\* first one (no overlong forms, no surrogates, nothing above U+10FFFF).
SecondOk(b, c) ==
    \/ b = 224 /\ c \in 160..191
    \/ b \in 225..236 /\ c \in 128..191
    \/ b = 237 /\ c \in 128..159
    \/ b \in 238..239 /\ c \in 128..191
    \/ b = 240 /\ c \in 144..191
    \/ b \in 241..243 /\ c \in 128..191
    \/ b = 244 /\ c \in 128..143

Drop(bs, k) == SubSeq(bs, k + 1, Len(bs))

RECURSIVE from_utf8_lossy(_)
from_utf8_lossy(bs) ==
    IF bs = <<>> THEN <<>>
    ELSE
      LET b == bs[1]
          w == utf8_char_width(b)
          c2 == Get(bs, 2)
          c3 == Get(bs, 3)
          c4 == Get(bs, 4)
      IN
        CASE w = 1 -> <<b>> \o from_utf8_lossy(Drop(bs, 1))
          [] w = 2 ->
               IF IsCont(c2)
               THEN <<(b - 192) * 64 + (c2 - 128)>> \o from_utf8_lossy(Drop(bs, 2))
               ELSE <<REPLACEMENT>> \o from_utf8_lossy(Drop(bs, 1))
          [] w = 3 ->
               IF ~SecondOk(b, c2)
               THEN <<REPLACEMENT>> \o from_utf8_lossy(Drop(bs, 1))
               ELSE IF ~IsCont(c3)
               THEN <<REPLACEMENT>> \o from_utf8_lossy(Drop(bs, 2))
               ELSE <<(b - 224) * 4096 + (c2 - 128) * 64 + (c3 - 128)>>
                      \o from_utf8_lossy(Drop(bs, 3))
          [] w = 4 ->
               IF ~SecondOk(b, c2)
               THEN <<REPLACEMENT>> \o from_utf8_lossy(Drop(bs, 1))
               ELSE IF ~IsCont(c3)
               THEN <<REPLACEMENT>> \o from_utf8_lossy(Drop(bs, 2))
               ELSE IF ~IsCont(c4)
               THEN <<REPLACEMENT>> \o from_utf8_lossy(Drop(bs, 3))
               ELSE <<(b - 240) * 262144 + (c2 - 128) * 4096
                        + (c3 - 128) * 64 + (c4 - 128)>>
                      \o from_utf8_lossy(Drop(bs, 4))
          [] OTHER -> <<REPLACEMENT>> \o from_utf8_lossy(Drop(bs, 1))

----------------------------------------------------------------------------
\* Helpers over the state.

EmptyMap == [k \in {} |-> 0]

RECURSIVE SumLen(_, _)
SumLen(f, S) ==
    IF S = {} THEN 0
    ELSE LET x == CHOOSE y \in S : TRUE
         IN Len(f[x]) + SumLen(f, S \ {x})

\* Bytes the children have produced so far, and bytes written to them.
OutTotal == SumLen(ptyOut, Pairs) + SumLen(consumed, Ids)
InTotal == SumLen(ptyIn, Pairs)

Min(a, b) == IF a < b THEN a ELSE b

Idle == [pc |-> "idle", op |-> "none", id |-> 0, pair |-> 0,
         size |-> <<0, 0>>, res |-> "none", data |-> <<>>]

\* The response of a finished command, before the caller has picked it up.
Ret(op, id, res) == [Idle EXCEPT !.pc = "ret", !.op = op, !.id = id,
                                 !.res = res]

OutputEvent(data) == [kind |-> "output", data |-> data, code |-> NoCode]
ExitEvent(code) == [kind |-> "exit", data |-> <<>>, code |-> code]

\* terminal_create calls that hold an opened PTY and have not registered it.
Registering == {t \in Callers : th[t].pc \in {"create_reg", "create_cs"}}

\* The registry entry (or, before registration, the creating call) owns the
\* PtyPair, master and slave side.
PairHeld(p) ==
    \/ \E i \in DOMAIN terminals : terminals[i].pair = p
    \/ \E t \in Registering : th[t].pair = p

\* The reader thread owns a clone of the master's read side.
ReaderHeld(p) ==
    \E i \in DOMAIN workers : workers[i].pair = p /\ workers[i].pc # "done"

----------------------------------------------------------------------------
\* TerminalState::new, and no PTY opened yet.
Init ==
    /\ terminals = EmptyMap
    /\ next_id = FirstId
    /\ lock = NoThread
    /\ th = [t \in Callers |-> Idle]
    /\ workers = EmptyMap
    /\ events = [i \in Ids |-> <<>>]
    /\ consumed = [i \in Ids |-> <<>>]
    /\ child = [p \in Pairs |-> "none"]
    /\ ptyOut = [p \in Pairs |-> <<>>]
    /\ ptyIn = [p \in Pairs |-> <<>>]
    /\ hup = [p \in Pairs |-> FALSE]
    /\ next_pair = 1
    /\ failed = {}
    /\ allocated = <<>>
    /\ returned = <<>>
    /\ removed = {}

----------------------------------------------------------------------------
\* terminal_create

\* Mutant: the id is taken before the reader handle is acquired.
CreateOpen_EarlyAlloc(t, g, outcome) ==
    /\ th[t].pc = "idle"
    /\ LET p == next_pair IN
       CASE outcome = "openpty_err" ->
              /\ th' = [th EXCEPT ![t] = Ret("create", 0, "error")]
              /\ UNCHANGED <<child, next_pair, failed, next_id>>
         [] outcome \in {"spawn_err", "writer_err"} ->
              /\ next_pair <= MaxPairs
              /\ th' = [th EXCEPT ![t] = Ret("create", 0, "error")]
              /\ next_pair' = next_pair + 1
              /\ failed' = failed \cup {p}
              /\ UNCHANGED <<child, next_id>>
         [] outcome = "reader_err" ->
              /\ next_pair <= MaxPairs
              /\ th' = [th EXCEPT ![t] = Ret("create", 0, "error")]
              /\ next_pair' = next_pair + 1
              /\ failed' = failed \cup {p}
              /\ next_id' = next_id + 1
              /\ UNCHANGED child
         [] outcome = "ok" ->
              /\ next_pair <= MaxPairs
              /\ th' = [th EXCEPT ![t] = [Idle EXCEPT !.pc = "create_reg",
                                                      !.op = "create",
                                                      !.pair = p,
                                                      !.size = g]]
              /\ child' = [child EXCEPT ![p] = "running"]
              /\ next_pair' = next_pair + 1
              /\ UNCHANGED <<failed, next_id>>
    /\ UNCHANGED <<terminals, lock, workers, events, consumed,
                   ptyOut, ptyIn, hup, allocated, returned, removed>>

\* openpty, spawn_command, take_writer, try_clone_reader: each may fail and
\* ends the call with an error before the registry is touched; what the call
\* had opened by then is dropped with its locals.
CreateOpen(t, g, outcome) ==
    /\ th[t].pc = "idle"
    /\ LET p == next_pair IN
       CASE outcome = "openpty_err" ->
              /\ th' = [th EXCEPT ![t] = Ret("create", 0, "error")]
              /\ UNCHANGED <<child, next_pair, failed>>
         [] outcome \in {"spawn_err", "writer_err", "reader_err"} ->
              /\ next_pair <= MaxPairs
              /\ th' = [th EXCEPT ![t] = Ret("create", 0, "error")]
              /\ next_pair' = next_pair + 1
              /\ failed' = failed \cup {p}
              /\ UNCHANGED child
         [] outcome = "ok" ->
              /\ next_pair <= MaxPairs
              /\ th' = [th EXCEPT ![t] = [Idle EXCEPT !.pc = "create_reg",
                                                      !.op = "create",
                                                      !.pair = p,
                                                      !.size = g]]
              /\ child' = [child EXCEPT ![p] = "running"]
              /\ next_pair' = next_pair + 1
              /\ UNCHANGED failed
    /\ UNCHANGED <<terminals, next_id, lock, workers, events, consumed,
                   ptyOut, ptyIn, hup, allocated, returned, removed>>

\* Mutant: the lock does not exclude a second holder.
CreateLock_Racy(t) ==
    /\ th[t].pc = "create_reg"
    /\ lock' = t
    /\ th' = [th EXCEPT ![t].pc = "create_cs", ![t].id = next_id]
    /\ UNCHANGED <<terminals, next_id, workers, events, consumed, child,
                   ptyOut, ptyIn, hup, next_pair, failed, allocated, returned,
                   removed>>

\* state.lock(); let id = state.next_id;
CreateLock(t) ==
    /\ th[t].pc = "create_reg"
    /\ lock = NoThread
    /\ lock' = t
    /\ th' = [th EXCEPT ![t].pc = "create_cs", ![t].id = next_id]
    /\ UNCHANGED <<terminals, next_id, workers, events, consumed, child,
                   ptyOut, ptyIn, hup, next_pair, failed, allocated, returned, removed>>

\* HashMap::insert: an existing entry under the key is replaced.
Insert(m, k, v) == [x \in DOMAIN m \cup {k} |-> IF x = k THEN v ELSE m[x]]

\* Mutant: a registration advances the counter by two.
CreateRegister_SkipsOne(t) ==
    /\ th[t].pc = "create_cs"
    /\ lock = t
    /\ next_id' = next_id + 2
    /\ terminals' = Insert(terminals, th[t].id,
                           [pair |-> th[t].pair, size |-> th[t].size])
    /\ allocated' = Append(allocated, th[t].id)
    /\ lock' = NoThread
    /\ th' = [th EXCEPT ![t].pc = "create_spawn"]
    /\ UNCHANGED <<workers, events, consumed, child, ptyOut, ptyIn, hup,
                   next_pair, failed, returned, removed>>

\* Mutant: the counter is not advanced.
CreateRegister_NoIncrement(t) ==
    /\ th[t].pc = "create_cs"
    /\ lock = t
    /\ Len(allocated) < MaxId
    /\ next_id' = next_id
    /\ terminals' = Insert(terminals, th[t].id,
                           [pair |-> th[t].pair, size |-> th[t].size])
    /\ allocated' = Append(allocated, th[t].id)
    /\ lock' = NoThread
    /\ th' = [th EXCEPT ![t].pc = "create_spawn"]
    /\ UNCHANGED <<workers, events, consumed, child, ptyOut, ptyIn, hup,
                   next_pair, failed, returned, removed>>

\* state.next_id += 1; state.terminals.insert(id, ..); the guard is dropped.
\* (next_id is a u32; the specifications keep it far below the width.)
CreateRegister(t) ==
    /\ th[t].pc = "create_cs"
    /\ lock = t
    /\ next_id' = next_id + 1
    /\ terminals' = Insert(terminals, th[t].id,
                           [pair |-> th[t].pair, size |-> th[t].size])
    /\ allocated' = Append(allocated, th[t].id)
    /\ lock' = NoThread
    /\ th' = [th EXCEPT ![t].pc = "create_spawn"]
    /\ UNCHANGED <<workers, events, consumed, child, ptyOut, ptyIn, hup,
                   next_pair, failed, returned, removed>>

\* Mutant: the reader is started for the first id, not for the call's own.
CreateSpawn_FirstId(t) ==
    /\ th[t].pc = "create_spawn"
    /\ workers' = Insert(workers, FirstId, [pc |-> "read", pair |-> th[t].pair])
    /\ th' = [th EXCEPT ![t] = Ret("create", th[t].id, "ok")]
    /\ UNCHANGED <<terminals, next_id, lock, events, consumed, child, ptyOut,
                   ptyIn, hup, next_pair, failed, allocated, returned, removed>>

\* thread::spawn(..); Ok(id)
CreateSpawn(t) ==
    /\ th[t].pc = "create_spawn"
    /\ workers' = Insert(workers, th[t].id, [pc |-> "read", pair |-> th[t].pair])
    /\ th' = [th EXCEPT ![t] = Ret("create", th[t].id, "ok")]
    /\ UNCHANGED <<terminals, next_id, lock, events, consumed, child, ptyOut,
                   ptyIn, hup, next_pair, failed, allocated, returned, removed>>

----------------------------------------------------------------------------
\* terminal_write

\* Mutant: a missing id is a silent no-op.
WriteBegin_SilentOk(t, id, data) ==
    /\ th[t].pc = "idle"
    /\ lock = NoThread
    /\ IF id \in DOMAIN terminals
       THEN /\ lock' = t
            /\ th' = [th EXCEPT ![t] = [Idle EXCEPT !.pc = "write_io",
                                                    !.op = "write",
                                                    !.id = id,
                                                    !.pair = terminals[id].pair,
                                                    !.data = data]]
       ELSE /\ lock' = NoThread
            /\ th' = [th EXCEPT ![t] = Ret("write", id, "ok")]
    /\ UNCHANGED <<terminals, next_id, workers, events, consumed, child,
                   ptyOut, ptyIn, hup, next_pair, failed, allocated, returned,
                   removed>>

\* Mutant: the guard is dropped right after the lookup.
WriteBegin_LookupOnly(t, id, data) ==
    /\ th[t].pc = "idle"
    /\ lock = NoThread
    /\ IF id \in DOMAIN terminals
       THEN th' = [th EXCEPT ![t] = [Idle EXCEPT !.pc = "write_io",
                                                 !.op = "write",
                                                 !.id = id,
                                                 !.pair = terminals[id].pair,
                                                 !.data = data]]
       ELSE th' = [th EXCEPT ![t] = Ret("write", id, "not_found")]
    /\ UNCHANGED <<terminals, next_id, lock, workers, events, consumed, child,
                   ptyOut, ptyIn, hup, next_pair, failed, allocated, returned,
                   removed>>

\* state.lock(); state.terminals.get_mut(&id).ok_or_else(..)?
WriteBegin(t, id, data) ==
    /\ th[t].pc = "idle"
    /\ lock = NoThread
    /\ IF id \in DOMAIN terminals
       THEN /\ lock' = t
            /\ th' = [th EXCEPT ![t] = [Idle EXCEPT !.pc = "write_io",
                                                    !.op = "write",
                                                    !.id = id,
                                                    !.pair = terminals[id].pair,
                                                    !.data = data]]
       ELSE /\ lock' = NoThread
            /\ th' = [th EXCEPT ![t] = Ret("write", id, "not_found")]
    /\ UNCHANGED <<terminals, next_id, workers, events, consumed, child,
                   ptyOut, ptyIn, hup, next_pair, failed, allocated, returned, removed>>

\* write_all loops over Write::write, which may take only a part of what is
\* left: one byte goes through, the rest stays to be written. The call is
\* still inside the function, with the guard it took in WriteBegin.
WritePart(t) ==
    /\ th[t].pc = "write_io"
    /\ Len(th[t].data) > 1
    /\ ptyIn' = [ptyIn EXCEPT ![th[t].pair] = Append(@, Head(th[t].data))]
    /\ th' = [th EXCEPT ![t].data = Tail(@)]
    /\ UNCHANGED <<terminals, next_id, lock, workers, events, consumed, child,
                   ptyOut, hup, next_pair, failed, allocated, returned, removed>>

\* Mutant: the error returns leave the lock held.
WriteIO_KeepsLockOnError(t, outcome) ==
    /\ th[t].pc = "write_io"
    /\ lock = t
    /\ CASE outcome = "ok" ->
              /\ ptyIn' = [ptyIn EXCEPT ![th[t].pair] = @ \o th[t].data]
              /\ th' = [th EXCEPT ![t] = Ret("write", th[t].id, "ok")]
              /\ lock' = NoThread
         [] outcome = "write_err" ->
              /\ ptyIn' = ptyIn
              /\ th' = [th EXCEPT ![t] = Ret("write", th[t].id, "io_error")]
              /\ lock' = lock
         [] outcome = "flush_err" ->
              /\ ptyIn' = [ptyIn EXCEPT ![th[t].pair] = @ \o th[t].data]
              /\ th' = [th EXCEPT ![t] = Ret("write", th[t].id, "io_error")]
              /\ lock' = lock
    /\ UNCHANGED <<terminals, next_id, workers, events, consumed, child,
                   ptyOut, hup, next_pair, failed, allocated, returned, removed>>

\* Mutant: a failed write drops the session.
WriteIO_DropOnError(t, outcome) ==
    /\ th[t].pc = "write_io"
    /\ lock = t
    /\ CASE outcome = "ok" ->
              /\ ptyIn' = [ptyIn EXCEPT ![th[t].pair] = @ \o th[t].data]
              /\ th' = [th EXCEPT ![t] = Ret("write", th[t].id, "ok")]
              /\ terminals' = terminals
         [] outcome = "write_err" ->
              /\ ptyIn' = ptyIn
              /\ th' = [th EXCEPT ![t] = Ret("write", th[t].id, "io_error")]
              /\ terminals' = [x \in DOMAIN terminals \ {th[t].id} |-> terminals[x]]
         [] outcome = "flush_err" ->
              /\ ptyIn' = [ptyIn EXCEPT ![th[t].pair] = @ \o th[t].data]
              /\ th' = [th EXCEPT ![t] = Ret("write", th[t].id, "io_error")]
              /\ terminals' = terminals
    /\ lock' = NoThread
    /\ UNCHANGED <<next_id, workers, events, consumed, child, ptyOut, hup,
                   next_pair, failed, allocated, returned, removed>>

\* writer.write_all(..)?; writer.flush()?; Ok(()) -- the guard taken by
\* WriteBegin is dropped when the function returns.
WriteIO(t, outcome) ==
    /\ th[t].pc = "write_io"
    /\ lock = t
    /\ CASE outcome = "ok" ->
              /\ ptyIn' = [ptyIn EXCEPT ![th[t].pair] = @ \o th[t].data]
              /\ th' = [th EXCEPT ![t] = Ret("write", th[t].id, "ok")]
         [] outcome = "write_err" ->
              /\ ptyIn' = ptyIn
              /\ th' = [th EXCEPT ![t] = Ret("write", th[t].id, "io_error")]
         [] outcome = "flush_err" ->
              /\ ptyIn' = [ptyIn EXCEPT ![th[t].pair] = @ \o th[t].data]
              /\ th' = [th EXCEPT ![t] = Ret("write", th[t].id, "io_error")]
    /\ lock' = NoThread
    /\ UNCHANGED <<terminals, next_id, workers, events, consumed, child,
                   ptyOut, hup, next_pair, failed, allocated, returned, removed>>

----------------------------------------------------------------------------
\* Mutant: a successful resize is applied to every registered terminal.
Resize_All(t, id, g, outcome) ==
    /\ th[t].pc = "idle"
    /\ lock = NoThread
    /\ IF id \notin DOMAIN terminals
       THEN /\ outcome = "ok"
            /\ th' = [th EXCEPT ![t] = Ret("resize", id, "not_found")]
            /\ terminals' = terminals
       ELSE CASE outcome = "ok" ->
                   /\ terminals' = [x \in DOMAIN terminals |->
                                       [terminals[x] EXCEPT !.size = g]]
                   /\ th' = [th EXCEPT ![t] = Ret("resize", id, "ok")]
              [] outcome = "backend_err" ->
                   /\ terminals' = terminals
                   /\ th' = [th EXCEPT ![t] = Ret("resize", id, "backend_error")]
    /\ UNCHANGED <<next_id, lock, workers, events, consumed, child, ptyOut,
                   ptyIn, hup, next_pair, failed, allocated, returned, removed>>

\* terminal_resize: lock, lookup, master.resize, unlock; nothing blocks.
Resize(t, id, g, outcome) ==
    /\ th[t].pc = "idle"
    /\ lock = NoThread
    /\ IF id \notin DOMAIN terminals
       THEN /\ outcome = "ok"
            /\ th' = [th EXCEPT ![t] = Ret("resize", id, "not_found")]
            /\ terminals' = terminals
       ELSE CASE outcome = "ok" ->
                   /\ terminals' = [terminals EXCEPT ![id].size = g]
                   /\ th' = [th EXCEPT ![t] = Ret("resize", id, "ok")]
              [] outcome = "backend_err" ->
                   /\ terminals' = terminals
                   /\ th' = [th EXCEPT ![t] = Ret("resize", id, "backend_error")]
    /\ UNCHANGED <<next_id, lock, workers, events, consumed, child, ptyOut,
                   ptyIn, hup, next_pair, failed, allocated, returned, removed>>

\* HashMap::remove
Remove(m, k) == [x \in DOMAIN m \ {k} |-> m[x]]

\* Mutant: only the entry of a session whose shell has exited is removed.
Close_OnlyExited(t, id) ==
    /\ th[t].pc = "idle"
    /\ lock = NoThread
    /\ LET gone == id \in DOMAIN terminals
                      /\ child[terminals[id].pair] = "exited"
       IN /\ terminals' = IF gone THEN Remove(terminals, id) ELSE terminals
          /\ removed' = IF gone THEN removed \cup {id} ELSE removed
    /\ th' = [th EXCEPT ![t] = Ret("close", id, "ok")]
    /\ UNCHANGED <<next_id, lock, workers, events, consumed, child, ptyOut,
                   ptyIn, hup, next_pair, failed, allocated, returned>>

\* Mutant: closing a session also ends its reader thread.
Close_StopsWorker(t, id) ==
    /\ th[t].pc = "idle"
    /\ lock = NoThread
    /\ terminals' = Remove(terminals, id)
    /\ removed' = removed \cup ({id} \cap DOMAIN terminals)
    /\ workers' = [i \in DOMAIN workers |->
                      IF i = id THEN [workers[i] EXCEPT !.pc = "done"]
                      ELSE workers[i]]
    /\ th' = [th EXCEPT ![t] = Ret("close", id, "ok")]
    /\ UNCHANGED <<next_id, lock, events, consumed, child, ptyOut,
                   ptyIn, hup, next_pair, failed, allocated, returned>>

\* Mutant: closing the newest terminal hands its id back to the counter.
Close_ReclaimId(t, id) ==
    /\ th[t].pc = "idle"
    /\ lock = NoThread
    /\ terminals' = [x \in DOMAIN terminals \ {id} |-> terminals[x]]
    /\ removed' = removed \cup ({id} \cap DOMAIN terminals)
    /\ next_id' = IF id \in DOMAIN terminals /\ id + 1 = next_id
                  THEN id ELSE next_id
    /\ th' = [th EXCEPT ![t] = Ret("close", id, "ok")]
    /\ UNCHANGED <<lock, workers, events, consumed, child, ptyOut, ptyIn, hup,
                   next_pair, failed, allocated, returned>>

\* terminal_close: lock, remove, unlock, Ok(()).
Close(t, id) ==
    /\ th[t].pc = "idle"
    /\ lock = NoThread
    /\ terminals' = Remove(terminals, id)
    /\ removed' = removed \cup ({id} \cap DOMAIN terminals)
    /\ th' = [th EXCEPT ![t] = Ret("close", id, "ok")]
    /\ UNCHANGED <<next_id, lock, workers, events, consumed, child, ptyOut,
                   ptyIn, hup, next_pair, failed, allocated, returned>>

\* The caller receives the Result of its command.
Return(t) ==
    /\ th[t].pc = "ret"
    /\ returned' = IF th[t].op = "create" /\ th[t].res = "ok"
                   THEN Append(returned, th[t].id)
                   ELSE returned
    /\ th' = [th EXCEPT ![t] = Idle]
    /\ UNCHANGED <<terminals, next_id, lock, workers, events, consumed, child,
                   ptyOut, ptyIn, hup, next_pair, failed, allocated, removed>>

----------------------------------------------------------------------------
\* The reader thread of session i.

\* Mutant: the output event is published under the following id.
ReaderOutput_NextId(i, n) ==
    /\ i \in DOMAIN workers
    /\ workers[i].pc = "read"
    /\ LET p == workers[i].pair
           chunk == SubSeq(ptyOut[p], 1, n)
           k == IF i + 1 \in Ids THEN i + 1 ELSE i
       IN /\ n \in 1..Min(Len(ptyOut[p]), BufSize)
          /\ events' = [events EXCEPT ![k] =
                            Append(@, OutputEvent(from_utf8_lossy(chunk)))]
          /\ consumed' = [consumed EXCEPT ![i] = @ \o chunk]
          /\ ptyOut' = [ptyOut EXCEPT ![p] = Drop(@, n)]
    /\ UNCHANGED <<terminals, next_id, lock, th, workers, child, ptyIn, hup,
                   next_pair, failed, allocated, returned, removed>>

\* Ok(n): emit "terminal-output" with the lossy decoding of buf[..n].
ReaderOutput(i, n) ==
    /\ i \in DOMAIN workers
    /\ workers[i].pc = "read"
    /\ LET p == workers[i].pair
           chunk == SubSeq(ptyOut[p], 1, n)
       IN /\ n \in 1..Min(Len(ptyOut[p]), BufSize)
          /\ events' = [events EXCEPT ![i] =
                            Append(@, OutputEvent(from_utf8_lossy(chunk)))]
          /\ consumed' = [consumed EXCEPT ![i] = @ \o chunk]
          /\ ptyOut' = [ptyOut EXCEPT ![p] = Drop(@, n)]
    /\ UNCHANGED <<terminals, next_id, lock, th, workers, child, ptyIn, hup,
                   next_pair, failed, allocated, returned, removed>>

\* Ok(0) => break: the stream has ended and nothing is left to read.
ReaderEof(i) ==
    /\ i \in DOMAIN workers
    /\ workers[i].pc = "read"
    /\ hup[workers[i].pair]
    /\ ptyOut[workers[i].pair] = <<>>
    /\ workers' = [workers EXCEPT ![i].pc = "wait"]
    /\ UNCHANGED <<terminals, next_id, lock, th, events, consumed, child,
                   ptyOut, ptyIn, hup, next_pair, failed, allocated, returned, removed>>

\* Mutant: the Err arm reports the exit itself and does not leave the loop.
ReaderErr_ExitInLoop(i) ==
    /\ i \in DOMAIN workers
    /\ workers[i].pc = "read"
    /\ Len(events[i]) <= MaxOut + 2
    /\ events' = [events EXCEPT ![i] = Append(@, ExitEvent(NoCode))]
    /\ UNCHANGED <<terminals, next_id, lock, th, workers, consumed, child,
                   ptyOut, ptyIn, hup, next_pair, failed, allocated, returned,
                   removed>>

\* Err(_) => break: any read may fail.
ReaderErr(i) ==
    /\ i \in DOMAIN workers
    /\ workers[i].pc = "read"
    /\ workers' = [workers EXCEPT ![i].pc = "wait"]
    /\ UNCHANGED <<terminals, next_id, lock, th, events, consumed, child,
                   ptyOut, ptyIn, hup, next_pair, failed, allocated, returned, removed>>

\* Mutant: the reader takes the registry lock to report the exit.
ReaderExit_Locked(i, code) ==
    /\ i \in DOMAIN workers
    /\ workers[i].pc = "wait"
    /\ lock = NoThread
    /\ code # NoCode => child[workers[i].pair] = "exited"
    /\ events' = [events EXCEPT ![i] = Append(@, ExitEvent(code))]
    /\ workers' = [workers EXCEPT ![i].pc = "done"]
    /\ UNCHANGED <<terminals, next_id, lock, th, consumed, child, ptyOut,
                   ptyIn, hup, next_pair, failed, allocated, returned, removed>>

\* Mutant: the reader unregisters its session when it reports the exit.
ReaderExit_Unregisters(i, code) ==
    /\ i \in DOMAIN workers
    /\ workers[i].pc = "wait"
    /\ code # NoCode => child[workers[i].pair] = "exited"
    /\ events' = [events EXCEPT ![i] = Append(@, ExitEvent(code))]
    /\ workers' = [workers EXCEPT ![i].pc = "done"]
    /\ terminals' = Remove(terminals, i)
    /\ UNCHANGED <<next_id, lock, th, consumed, child, ptyOut,
                   ptyIn, hup, next_pair, failed, allocated, returned, removed>>

\* child.wait().ok().map(exit_code), then emit "terminal-exit". wait blocks
\* until the child has exited; if wait itself fails the code is None.
ReaderExit(i, code) ==
    /\ i \in DOMAIN workers
    /\ workers[i].pc = "wait"
    /\ code # NoCode => child[workers[i].pair] = "exited"
    /\ events' = [events EXCEPT ![i] = Append(@, ExitEvent(code))]
    /\ workers' = [workers EXCEPT ![i].pc = "done"]
    /\ UNCHANGED <<terminals, next_id, lock, th, consumed, child, ptyOut,
                   ptyIn, hup, next_pair, failed, allocated, returned, removed>>

----------------------------------------------------------------------------
\* The PTY backend and the shell, as far as the program observes them.

\* The shell writes a byte to its terminal; it needs an open master side.
ChildOutput(p, b) ==
    /\ child[p] = "running"
    /\ PairHeld(p) \/ ReaderHeld(p)
    /\ ptyOut' = [ptyOut EXCEPT ![p] = Append(@, b)]
    /\ UNCHANGED <<terminals, next_id, lock, th, workers, events, consumed,
                   child, ptyIn, hup, next_pair, failed, allocated, returned, removed>>

ChildExit(p) ==
    /\ child[p] = "running"
    /\ child' = [child EXCEPT ![p] = "exited"]
    /\ UNCHANGED <<terminals, next_id, lock, th, workers, events, consumed,
                   ptyOut, ptyIn, hup, next_pair, failed, allocated, returned, removed>>

\* The master side starts reporting end of stream to its reader. This needs
\* the shell to have exited; the backend guarantees it only once no handle on
\* the slave side is left open, and the PtyPair kept in the registry entry
\* holds one.
PtyHangup(p) ==
    /\ child[p] = "exited"
    /\ ReaderHeld(p)
    /\ ~hup[p]
    /\ hup' = [hup EXCEPT ![p] = TRUE]
    /\ UNCHANGED <<terminals, next_id, lock, th, workers, events, consumed,
                   child, ptyOut, ptyIn, next_pair, failed, allocated, returned, removed>>

----------------------------------------------------------------------------
CreateOutcomes == {"openpty_err", "spawn_err", "writer_err", "reader_err", "ok"}
WriteOutcomes == {"ok", "write_err", "flush_err"}
ResizeOutcomes == {"ok", "backend_err"}

\* The commands, invoked concurrently by the callers in T.
\* At most cap ids are handed out and at most MaxIn bytes written.
Commands(T, G, cap) ==
    \/ \E t \in T, g \in G, o \in CreateOutcomes :
          /\ o = "ok" => next_id + Cardinality(Registering) <= cap
          /\ CreateOpen(t, g, o)
    \/ \E t \in T : CreateLock(t)
    \/ \E t \in T : CreateRegister(t)
    \/ \E t \in T : CreateSpawn(t)
    \/ \E t \in T, id \in Ids, d \in Payloads :
          /\ id \in DOMAIN terminals => InTotal + Len(d) <= MaxIn
          /\ WriteBegin(t, id, d)
    \/ \E t \in T, o \in WriteOutcomes : WriteIO(t, o)
    \/ \E t \in T, id \in Ids, g \in G, o \in ResizeOutcomes :
          Resize(t, id, g, o)
    \/ \E t \in T, id \in Ids : Close(t, id)
    \/ \E t \in T : Return(t)

Next == Commands(Callers, Geoms, MaxId)

Spec == Init /\ [][Next]_vars

\* The reader threads.
Readers(cap) ==
    \/ \E i \in Ids, n \in 1..cap : ReaderOutput(i, n)
    \/ \E i \in Ids : ReaderEof(i)
    \/ \E i \in Ids : ReaderErr(i)
    \/ \E i \in Ids, c \in ExitCodes \cup {NoCode} : ReaderExit(i, c)

\* The shells and the PTY backend; the shells write at most cap bytes.
Backend(B, cap) ==
    \/ \E p \in Pairs, b \in B : OutTotal < cap /\ ChildOutput(p, b)
    \/ \E p \in Pairs : ChildExit(p)
    \/ \E p \in Pairs : PtyHangup(p)

\* Sessions through their whole life: commands issued one at a time, the
\* reader threads and the shells running concurrently with them.
NextSession ==
    \/ Commands({"t1"}, {<<24, 80>>}, MaxSessions)
    \/ Readers(MaxOut)
    \/ Backend(SessionBytes, MaxOut)

SessionSpec == Init /\ [][NextSession]_vars

\* One session right after terminal_create has returned its id.
InitRead ==
    /\ terminals = Insert(EmptyMap, FirstId, [pair |-> 1, size |-> <<24, 80>>])
    /\ next_id = FirstId + 1
    /\ lock = NoThread
    /\ th = [t \in Callers |-> Idle]
    /\ workers = Insert(EmptyMap, FirstId, [pc |-> "read", pair |-> 1])
    /\ events = [i \in Ids |-> <<>>]
    /\ consumed = [i \in Ids |-> <<>>]
    /\ child = [p \in Pairs |-> IF p = 1 THEN "running" ELSE "none"]
    /\ ptyOut = [p \in Pairs |-> <<>>]
    /\ ptyIn = [p \in Pairs |-> <<>>]
    /\ hup = [p \in Pairs |-> FALSE]
    /\ next_pair = 2
    /\ failed = {}
    /\ allocated = <<FirstId>>
    /\ returned = <<FirstId>>
    /\ removed = {}

\* The reader of that session against every output its shell can produce.
NextRead == Readers(MaxStream) \/ Backend(Bytes, MaxStream)

ReadSpec == InitRead /\ [][NextRead]_vars

\* Scheduling: a thread that can take its next step eventually takes it. A
\* read returns once data or the end of the stream is there, wait returns
\* once the child has exited. Whether a blocked write_all ever returns, a
\* read fails, or a caller issues another command is left open, and the
\* backend owes the end of the stream only when no slave handle is held.
Fairness ==
    /\ \A t \in Callers :
          /\ WF_vars(CreateLock(t))
          /\ WF_vars(CreateRegister(t))
          /\ WF_vars(CreateSpawn(t))
          /\ WF_vars(Return(t))
    /\ \A i \in Ids :
          /\ WF_vars(\E n \in 1..MaxOut : ReaderOutput(i, n))
          /\ WF_vars(ReaderEof(i))
          /\ WF_vars(\E c \in ExitCodes : ReaderExit(i, c))
    /\ \A p \in Pairs : WF_vars(~PairHeld(p) /\ PtyHangup(p))

FairSessionSpec == SessionSpec /\ Fairness

\* The commands of two callers while the shells of the sessions come to
\* their end on their own: nothing in a command looks at the child.
NextLife ==
    \/ Commands(Callers, {<<24, 80>>}, MaxId)
    \/ \E p \in Pairs : ChildExit(p)

LifeSpec == Init /\ [][NextLife]_vars

\* What each caller writes: two bytes, different from caller to caller.
WritePayload(t) == IF t = "t1" THEN <<120, 121>> ELSE <<122, 123>>

\* Writes of both callers to the session of InitRead, and closes of it,
\* the payloads going through byte by byte.
NextWrite ==
    \/ \E t \in Callers, id \in Ids :
          /\ id \in DOMAIN terminals
               => InTotal + Len(WritePayload(t)) <= MaxWrite
          /\ WriteBegin(t, id, WritePayload(t))
    \/ \E t \in Callers : WritePart(t)
    \/ \E t \in Callers, o \in WriteOutcomes : WriteIO(t, o)
    \/ \E t \in Callers, id \in Ids : Close(t, id)
    \/ \E t \in Callers : Return(t)

WriteSpec == InitRead /\ [][NextWrite]_vars

\* The first session with both callers issuing commands against it, its
\* reader and its shell running along.
NextShared ==
    \/ Commands(Callers, {<<24, 80>>}, FirstId)
    \/ Readers(MaxOut)
    \/ Backend(SessionBytes, MaxOut)

SharedSpec == Init /\ [][NextShared]_vars

----------------------------------------------------------------------------
\* Observations on the events of a session.

ExitIndexes(i) == {k \in 1..Len(events[i]) : events[i][k].kind = "exit"}
OutputIndexes(i) == {k \in 1..Len(events[i]) : events[i][k].kind = "output"}

RECURSIVE ConcatData(_)
ConcatData(es) ==
    IF es = <<>> THEN <<>>
    ELSE (IF es[1].kind = "output" THEN es[1].data ELSE <<>>)
           \o ConcatData(Tail(es))

ChildOf(i) == child[workers[i].pair]

----------------------------------------------------------------------------
\* A command of caller t finishes in this step.
Completes(t) == th[t].pc # "ret" /\ th'[t].pc = "ret"

\* An id that names no session: not handed out yet, or closed since.
Unknown(id) == id >= next_id \/ id \in removed

\* C1: the ids terminal_create allocates start at 1 and strictly increase in
\* allocation order, and no id is handed to a caller twice, closes included.
C1_IdsStrictlyIncreasing ==
    /\ allocated # <<>> => allocated[1] = 1
    /\ \A j, k \in 1..Len(allocated) : j < k => allocated[j] < allocated[k]
    /\ \A j, k \in 1..Len(returned) : j # k => returned[j] # returned[k]
    /\ \A k \in 1..Len(returned) :
          \E j \in 1..Len(allocated) : allocated[j] = returned[k]
    /\ \A t \in Callers :
          th[t].pc = "ret" /\ th[t].op = "create" /\ th[t].res = "ok"
            => /\ \E j \in 1..Len(allocated) : allocated[j] = th[t].id
               /\ \A k \in 1..Len(returned) : returned[k] # th[t].id
               /\ \A u \in Callers \ {t} :
                     th[u].pc = "ret" /\ th[u].op = "create" /\ th[u].res = "ok"
                       => th[u].id # th[t].id

\* terminal_create returns 2 after the session with id 1 has been closed.
C1_Witness ==
    \E t \in Callers :
       /\ th[t] = Ret("create", 2, "ok")
       /\ 1 \in removed
       /\ returned = <<1>>

C3_RemovedStaysRemoved ==
    [][\A i \in removed :
          /\ i \in removed'
          /\ i \notin DOMAIN terminals'
          /\ \A t \in Callers :
                Completes(t) /\ th'[t].id = i /\ th'[t].op \in {"write", "resize"}
                  => th'[t].res = "not_found"]_vars

\* Id 1 is closed, a later terminal_create has registered id 2, and a resize
\* of id 1 was answered not-found.
C3_Witness ==
    /\ 1 \in removed
    /\ 2 \in DOMAIN terminals
    /\ \E t \in Callers : th[t] = Ret("resize", 1, "not_found")

\* C4: once the shell of a created session has exited, its reader eventually
\* has published exactly one terminal-exit event, placed after every
\* terminal-output event of the session.
C4_ExitEventuallyPublished ==
    \A i \in Ids :
       [](i \in DOMAIN workers /\ ChildOf(i) = "exited"
            => <>(/\ Cardinality(ExitIndexes(i)) = 1
                  /\ \A k \in OutputIndexes(i) : \A x \in ExitIndexes(i) : k < x))

\* C5: per id at most one terminal-exit event, published only by a reader
\* that had left its read loop (it was in wait), and nothing is published
\* for the id after it.
C5_ExitOnceAfterLoop ==
    /\ [](\A i \in Ids :
            /\ Cardinality(ExitIndexes(i)) <= 1
            /\ \A x \in ExitIndexes(i) :
                  /\ x = Len(events[i])
                  /\ i \in DOMAIN workers
                  /\ workers[i].pc = "done")
    /\ [][\A i \in Ids :
            ExitIndexes(i) # {} \/ events'[i] = events[i]
              \/ events'[i][Len(events'[i])].kind = "output"
              \/ (i \in DOMAIN workers /\ workers[i].pc = "wait")]_vars

\* A reader has published output and then its exit event.
C5_Witness ==
    \E i \in Ids :
       /\ Len(events[i]) >= 2
       /\ events[i][1].kind = "output"
       /\ events[i][Len(events[i])].kind = "exit"

\* C6: the data of a session's terminal-output events, concatenated, is the
\* lossy decoding of everything its reader has read, however the reads
\* split the stream.
C6_ConcatIsDecodedStream ==
    \A i \in Ids : ConcatData(events[i]) = from_utf8_lossy(consumed[i])

\* C7: a terminal_write that is inside write_all or flush does not hold the
\* registry lock, so a write to another session can take it.
C7_NoLockDuringWrite ==
    \A t \in Callers : th[t].pc = "write_io" => lock = NoThread

\* C8: a terminal_create that fails changes neither the mapping nor the
\* counter, starts no reader and publishes nothing, and the PTY it had
\* opened never belongs to an entry or to a reader.
C8_FailedCreateLeavesNoTrace ==
    /\ [](/\ \A i \in DOMAIN terminals : terminals[i].pair \notin failed
          /\ \A i \in DOMAIN workers : workers[i].pair \notin failed)
    /\ [][\A t \in Callers :
            Completes(t) /\ th'[t].op = "create" /\ th'[t].res = "error"
              => UNCHANGED <<terminals, next_id, workers, events>>]_vars

\* A terminal_create has failed after opening a PTY while another session
\* is registered and has published output.
C8_Witness ==
    \E t \in Callers :
       /\ th[t] = Ret("create", 0, "error")
       /\ failed # {}
       /\ \E i \in DOMAIN terminals : events[i] # <<>>

\* C9: a terminal_write changes neither the mapping nor the counter; when
\* its write or flush fails it returns an I/O error after sending its
\* payload at most once, the session is still registered, and an entry
\* leaves the mapping only in a step that completes a terminal_close of it.
C9_WriteErrorKeepsSession ==
    [][/\ \A t \in Callers :
            /\ th'[t].op = "write" /\ th'[t] # th[t]
                 => terminals' = terminals /\ next_id' = next_id
            /\ Completes(t) /\ th'[t].op = "write" /\ th'[t].res = "io_error"
                 => /\ th'[t].id \in DOMAIN terminals'
                    /\ \A p \in Pairs :
                          Len(ptyIn'[p]) <= Len(ptyIn[p]) + Len(th[t].data)
       /\ \A i \in DOMAIN terminals \ DOMAIN terminals' :
            \E u \in Callers :
               Completes(u) /\ th'[u].op = "close" /\ th'[u].id = i]_vars

\* A write to a session has failed with an I/O error and a later write to
\* the same id has found the session.
C9_Witness ==
    \E t, u \in Callers :
       /\ th[t].pc = "ret" /\ th[t].op = "write" /\ th[t].res = "io_error"
       /\ th[u].pc = "write_io" /\ th[u].id = th[t].id
       /\ th[t].id \in DOMAIN terminals

\* C10: terminal_resize, whatever its result, leaves the set of registered
\* ids, the counter, every writer and every other session's entry as they
\* were, and changes nothing at all unless it succeeds.
C10_ResizeFrame ==
    [][\A t \in Callers :
          Completes(t) /\ th'[t].op = "resize"
            => /\ DOMAIN terminals' = DOMAIN terminals
               /\ next_id' = next_id
               /\ ptyIn' = ptyIn
               /\ \A j \in DOMAIN terminals :
                     /\ terminals'[j].pair = terminals[j].pair
                     /\ j # th'[t].id => terminals'[j] = terminals[j]
               /\ th'[t].res # "ok" => terminals' = terminals]_vars

\* A resize to rows=0, cols=0 has succeeded on one session while another
\* session keeps its 24x80 geometry.
C10_Witness ==
    \E t \in Callers : \E j \in DOMAIN terminals :
       /\ th[t].pc = "ret" /\ th[t].op = "resize" /\ th[t].res = "ok"
       /\ th[t].id \in DOMAIN terminals
       /\ j # th[t].id
       /\ terminals[th[t].id].size = <<0, 0>>
       /\ terminals[j].size = <<24, 80>>

\* C11: terminal_close always returns success; it removes the entry of its id
\* if there is one, whether the shell of the session is running or has exited,
\* and leaves every other entry and the counter as they were; on an id
\* without entry it changes nothing, so a second close of the same id leaves
\* the registry as the first one left it.
C11_CloseRemovesExactlyOne ==
    [][\A t \in Callers :
          Completes(t) /\ th'[t].op = "close"
            => /\ th'[t].res = "ok"
               /\ DOMAIN terminals' = DOMAIN terminals \ {th'[t].id}
               /\ \A j \in DOMAIN terminals' : terminals'[j] = terminals[j]
               /\ next_id' = next_id
               /\ th'[t].id \notin DOMAIN terminals => terminals' = terminals]_vars

\* Both callers have closed id 1 with success, one of them finding no entry,
\* the shell of that session has exited, and session 2 is still registered.
C11_Witness ==
    /\ \A t \in Callers : th[t] = Ret("close", 1, "ok")
    /\ 1 \in removed
    /\ 2 \in DOMAIN terminals
    /\ \E p \in Pairs \ failed :
          p # terminals[2].pair /\ child[p] = "exited"

\* C12: terminal_close leaves the reader threads and the published events as
\* they are; a reader leaves its read loop only by a step of its own (a
\* zero-length read or a read error), never by a step of a command; and the
\* reader of a closed session can go on: with bytes pending it can publish a
\* terminal-output event, and once out of the loop its terminal-exit event.
C12_CloseLeavesWorkerRunning ==
    /\ [][/\ \A t \in Callers :
               Completes(t) /\ th'[t].op = "close"
                 => workers' = workers /\ events' = events
           /\ \A i \in DOMAIN workers :
               workers[i].pc = "read" /\ workers'[i].pc # "read"
                 => /\ workers'[i].pc = "wait"
                    /\ th' = th
                    /\ terminals' = terminals]_vars
    /\ [](\A i \in removed \cap DOMAIN workers :
             /\ workers[i].pc = "read" /\ ptyOut[workers[i].pair] # <<>>
                  => ENABLED ReaderOutput(i, 1)
             /\ workers[i].pc = "wait" => ENABLED ReaderExit(i, NoCode))

\* terminal_close(1) has returned, the reader of session 1 is still in its
\* loop with a byte to read and has published nothing so far.
C12_Witness ==
    /\ 1 \in removed
    /\ \A t \in Callers : th[t].pc = "idle"
    /\ 1 \in DOMAIN workers
    /\ workers[1].pc = "read"
    /\ ptyOut[workers[1].pair] # <<>>
    /\ events[1] = <<>>

\* The terminal_create calls that have read an id from the counter.
HasId == {t \in Callers :
            \/ th[t].pc \in {"create_cs", "create_spawn"}
            \/ th[t].pc = "ret" /\ th[t].op = "create" /\ th[t].res = "ok"}

\* Caller t registers its session in this step.
Registers(t) == th[t].pc = "create_cs" /\ th'[t].pc = "create_spawn"

\* C13: a terminal_create reads the counter, advances it and inserts under
\* the lock in one piece: a call between reading and inserting holds the
\* lock, concurrent calls hold distinct ids, and the insertion goes under
\* the value the counter still has, to a key that is free and was never
\* used, with the PTY pair of the inserting call, every other entry staying
\* as it was.
C13_RegistrationIsAtomic ==
    /\ [](/\ \A t \in Callers : th[t].pc = "create_cs" => lock = t
          /\ \A t, u \in HasId : t # u => th[t].id # th[u].id)
    /\ [][\A t \in Callers :
            Registers(t)
              => /\ th[t].id = next_id
                 /\ next_id' = next_id + 1
                 /\ th[t].id \notin DOMAIN terminals \cup removed
                 /\ DOMAIN terminals' = DOMAIN terminals \cup {th[t].id}
                 /\ terminals'[th[t].id].pair = th[t].pair
                 /\ \A j \in DOMAIN terminals : terminals'[j] = terminals[j]]_vars

\* Two overlapping terminal_create calls have both registered, under
\* different ids, each id mapped to the pair of its own call.
C13_Witness ==
    /\ \A t \in Callers :
          /\ th[t].pc = "create_spawn"
          /\ th[t].id \in DOMAIN terminals
          /\ terminals[th[t].id].pair = th[t].pair
    /\ th["t1"].id # th["t2"].id
    /\ th["t1"].pair # th["t2"].pair

\* C14: from the lookup of a terminal_write to its return the call holds the
\* lock and its session stays registered (no close takes effect in between),
\* every byte reaching a writer in that time is the next part of that call's
\* payload, and so in the stream of a writer the bytes of a payload stand
\* next to each other.
C14_WritesSerialized ==
    /\ [](/\ \A t \in Callers :
               th[t].pc = "write_io"
                 => lock = t /\ th[t].id \in DOMAIN terminals
          /\ \A p \in Pairs : \A k \in 1..Len(ptyIn[p]) : \A t \in Callers :
               ptyIn[p][k] = WritePayload(t)[2]
                 => k > 1 /\ ptyIn[p][k - 1] = WritePayload(t)[1])
    /\ [][\A t \in Callers :
            th[t].pc = "write_io"
              => /\ terminals' = terminals
                 /\ \A p \in Pairs :
                       ptyIn'[p] # ptyIn[p]
                         => /\ p = th[t].pair
                            /\ th'[t] # th[t]
                            /\ \E n \in 1..Len(th[t].data) :
                                  ptyIn'[p] = ptyIn[p]
                                                \o SubSeq(th[t].data, 1, n)]_vars

\* The second caller's payload went through whole, then the first caller's
\* write to the same session has delivered its first byte and is still
\* inside write_all.
C14_Witness ==
    /\ th["t1"].pc = "write_io"
    /\ th["t1"].id = 1
    /\ th["t1"].data = <<WritePayload("t1")[2]>>
    /\ th["t2"] = Ret("write", 1, "ok")
    /\ ptyIn[1] = WritePayload("t2") \o <<WritePayload("t1")[1]>>

\* The ids registered so far.
Registered == {allocated[k] : k \in 1..Len(allocated)}

\* C15: every key of the mapping has one PTY pair, opened by a
\* terminal_create that went on to register (never one of a failed call), and
\* no two keys have the same pair; every reader belongs to a registered id,
\* reads the pair registered under that id, and no two readers read the same
\* pair; a call about to start its reader holds the pair registered under its
\* id, and that id has no reader yet.
C15_KeyPairWorkerOneToOne ==
    /\ \A i \in DOMAIN terminals :
          /\ terminals[i].pair \in (1..(next_pair - 1)) \ failed
          /\ \A j \in DOMAIN terminals :
                i # j => terminals[i].pair # terminals[j].pair
    /\ \A i \in DOMAIN workers :
          /\ i \in Registered
          /\ i \in DOMAIN terminals => workers[i].pair = terminals[i].pair
          /\ \A j \in DOMAIN workers : i # j => workers[i].pair # workers[j].pair
    /\ \A t \in Callers :
          th[t].pc = "create_spawn"
            => /\ th[t].id \in Registered \ DOMAIN workers
               /\ th[t].id \in DOMAIN terminals
                    => terminals[th[t].id].pair = th[t].pair
               /\ \A j \in DOMAIN workers : workers[j].pair # th[t].pair

\* Two sessions are registered, each with its own pair and its own reader.
C15_Witness ==
    /\ DOMAIN terminals = {1, 2}
    /\ DOMAIN workers = {1, 2}
    /\ terminals[1].pair # terminals[2].pair
    /\ \A i \in {1, 2} : workers[i].pair = terminals[i].pair

\* The mapping proper: which ids are registered, each with which PTY pair.
Mapping == [i \in DOMAIN terminals |-> terminals[i].pair]

\* C16: the mapping changes only in a step in which a terminal_create
\* registers or a terminal_close completes; steps of the readers and of the
\* shells (events published, child exiting, end of stream) leave the registry
\* as it is; and a terminal_write that finds its id registered, also after the
\* session's exit event, goes on to the write and ends with success or an
\* I/O error, never not-found.
C16_OnlyCreateCloseChangeMapping ==
    [][/\ Mapping' # Mapping
            => \E t \in Callers :
                  Registers(t) \/ (Completes(t) /\ th'[t].op = "close")
       /\ th' = th => terminals' = terminals /\ next_id' = next_id
       /\ \A t \in Callers :
            /\ th[t].pc = "idle" /\ th'[t].op = "write"
                 /\ th'[t].id \in DOMAIN terminals
                 => th'[t].pc = "write_io"
            /\ th[t].pc = "write_io" /\ Completes(t)
                 => th'[t].res \in {"ok", "io_error"}]_vars

\* The exit event of session 1 is out, the session is still registered, and
\* a terminal_write on it has passed the lookup.
C16_Witness ==
    /\ ExitIndexes(1) # {}
    /\ 1 \in DOMAIN terminals
    /\ \E t \in Callers : th[t].pc = "write_io" /\ th[t].id = 1

\* C17: every id with a published event was registered before, and has a
\* reader; an event for id i is published in a step of the reader of i and
\* of nothing else (no command moves, no other id's events change): the
\* events of i only grow at the end, and an output event carries bytes taken
\* from the pair of that reader.
C17_EventsCarryRegisteredIds ==
    /\ [](\A i \in Ids :
            events[i] # <<>> => i \in Registered /\ i \in DOMAIN workers)
    /\ [][\A i \in Ids :
            events'[i] # events[i]
              => /\ i \in Registered
                 /\ i \in DOMAIN workers
                 /\ workers[i].pc \in {"read", "wait"}
                 /\ th' = th
                 /\ \A j \in Ids \ {i} : events'[j] = events[j]
                 /\ Len(events'[i]) = Len(events[i]) + 1
                 /\ SubSeq(events'[i], 1, Len(events[i])) = events[i]
                 /\ events'[i][Len(events'[i])].kind = "output"
                      => /\ workers[i].pc = "read"
                         /\ consumed'[i] # consumed[i]
                         /\ Len(ptyOut'[workers[i].pair])
                              < Len(ptyOut[workers[i].pair])]_vars

\* The reader of session 1 has published an event while the terminal_create
\* that registered id 1 has not yet handed the id to its caller.
C17_Witness ==
    /\ events[1] # <<>>
    /\ returned = <<>>
    /\ \E t \in Callers : th[t] = Ret("create", 1, "ok")

\* C18: a step of a reader never changes the lock, and whoever holds the
\* lock, a reader can take its next step: read pending bytes and publish
\* them, see the end of the stream, fail its read, and, once out of the loop,
\* publish the exit (with the code as soon as the child has exited).
C18_ReaderNeverLocks ==
    /\ [][workers' # workers \/ events' # events \/ consumed' # consumed
            => \/ lock' = lock
               \/ \E t \in Callers : th'[t] # th[t]]_vars
    /\ [](\A i \in DOMAIN workers :
            /\ workers[i].pc = "read"
                 => /\ ENABLED ReaderErr(i)
                    /\ ptyOut[workers[i].pair] # <<>> => ENABLED ReaderOutput(i, 1)
                    /\ ptyOut[workers[i].pair] = <<>> /\ hup[workers[i].pair]
                         => ENABLED ReaderEof(i)
            /\ workers[i].pc = "wait"
                 => /\ ENABLED ReaderExit(i, NoCode)
                    /\ child[workers[i].pair] = "exited"
                         => \A c \in ExitCodes : ENABLED ReaderExit(i, c))

\* A terminal_write is inside its I/O holding the lock while the reader of
\* the session is out of its loop, about to publish the exit.
C18_Witness ==
    \E t \in Callers :
       /\ th[t].pc = "write_io"
       /\ lock = t
       /\ th[t].id \in DOMAIN workers
       /\ workers[th[t].id].pc = "wait"
       /\ child[workers[th[t].id].pair] = "exited"

\* C19: the counter is 1 plus the number of registrations made so far, the
\* k-th registration got id k, and every key of the mapping is at least 1 and
\* below the counter.
C19_CounterCountsRegistrations ==
    /\ next_id = FirstId + Len(allocated)
    /\ \A k \in 1..Len(allocated) : allocated[k] = k
    /\ \A i \in DOMAIN terminals : FirstId <= i /\ i < next_id

\* After a registration, a close of it and a second registration, a
\* terminal_create has just failed: the counter stands at 3.
C19_Witness ==
    /\ allocated = <<1, 2>>
    /\ 1 \in removed
    /\ next_id = 3
    /\ \E t \in Callers : th[t] = Ret("create", 0, "error")

\* The positions of a command at which it holds the guard of state.lock().
Locked == {"create_cs", "write_io"}

\* C20: the lock is held exactly by a command inside its locked part, so it
\* is free whenever no command is in progress; a command takes it only when
\* it is free and the command has not held it, gives it up on its way to
\* every result, success or error, and does not take it again; whoever holds
\* it can take the step that releases it, and once it is free a waiting
\* command can take it: no command waits for ever on another or on a reader.
C20_LockDiscipline ==
    /\ [](/\ lock \in Callers \cup {NoThread}
          /\ \A t \in Callers : lock = t <=> th[t].pc \in Locked
          /\ (\A t \in Callers : th[t].pc \in {"idle", "ret"}) => lock = NoThread
          /\ \A t \in Callers :
               /\ th[t].pc = "create_cs" => ENABLED CreateRegister(t)
               /\ th[t].pc = "write_io"
                    => \A o \in WriteOutcomes : ENABLED WriteIO(t, o)
               /\ lock = NoThread /\ th[t].pc = "create_reg"
                    => ENABLED CreateLock(t)
               /\ lock = NoThread /\ th[t].pc = "idle"
                    => \A id \in Ids :
                          /\ ENABLED Close(t, id)
                          /\ ENABLED Resize(t, id, <<24, 80>>, "ok")
                          /\ ENABLED WriteBegin(t, id, <<120>>))
    /\ [][\A t \in Callers :
            /\ lock' = t /\ lock # t
                 => lock = NoThread /\ th[t].pc \in {"idle", "create_reg"}
            /\ lock = t /\ lock' # t
                 => lock' = NoThread /\ th'[t].pc \in {"create_spawn", "ret"}
            /\ th[t].pc \in {"create_spawn", "ret"} => lock' # t]_vars

\* A terminal_write has returned an I/O error and the other caller's write
\* to the same session now holds the lock, the reader having finished.
C20_Witness ==
    /\ th["t1"] = Ret("write", 1, "io_error")
    /\ th["t2"].pc = "write_io"
    /\ lock = "t2"
    /\ 1 \in DOMAIN workers
    /\ workers[1].pc = "done"

====
